---- MODULE Spec2Model ----
(***************************************************************************)
(* Model of the candidate-mining trie engine of adeft                      *)
(* (src/adeft/discover.py): _TrieNode, AdeftMiner, load/dump and compose.  *)
(*                                                                         *)
(* Representation.                                                         *)
(*  - A trie is a function from paths to node records.  The path of a node *)
(*    is the sequence of children-dict keys leading to it from the root;   *)
(*    the node's own `longform` attribute is a separate field.             *)
(*  - A Python dict is insertion ordered: `children` is the sequence of    *)
(*    its keys in insertion order, the child for key k of the node at path *)
(*    p is the node at path Append(p, k).                                  *)
(*  - `parent` is "None" for a root, "owner" when it refers to the node    *)
(*    whose children dict holds this node, and "detached" when it refers   *)
(*    to a node of a deep copy that no live trie contains.                 *)
(*  - Python floats are modelled as exact rationals <<num, den>> in lowest *)
(*    terms; IEEE rounding is outside the model.                           *)
(***************************************************************************)
EXTENDS Integers, Sequences, FiniteSets, TLC

\* ---------------------------------------------------------------- bounds
MaxLen == 2        \* longest token window handed to _add
MaxHist == 3       \* most windows the miner ingests by process_texts
MaxOther == 2      \* most windows ingested by a miner that is merged in
MaxMerged == 3     \* most windows in the history of the miner after a merge

Words == {"a", "bs"}
Shortform == "ER"
ShortformLen == 2
DefaultWindow == 100

\* ------------------------------------------------------------- rationals
Abs(x) == IF x < 0 THEN -x ELSE x

RECURSIVE GCD(_, _)
GCD(a, b) == IF b = 0 THEN a ELSE GCD(b, a % b)

Rat(n, d) ==
    LET g == GCD(Abs(n), Abs(d))
        s == IF d < 0 THEN -1 ELSE 1
    IN  << (s * n) \div g, (s * d) \div g >>

R(n) == << n, 1 >>
RAdd(x, y) == Rat(x[1] * y[2] + y[1] * x[2], x[2] * y[2])
RSub(x, y) == Rat(x[1] * y[2] - y[1] * x[2], x[2] * y[2])
RMul(x, y) == Rat(x[1] * y[1], x[2] * y[2])
RDiv(x, y) == Rat(x[1] * y[2], x[2] * y[1])
RLt(x, y) == x[1] * y[2] < y[1] * x[2]
RLe(x, y) == x[1] * y[2] <= y[1] * x[2]
RGt(x, y) == RLt(y, x)
RMax(x, y) == IF RGt(x, y) THEN x ELSE y

\* ------------------------------------------------------ sequences, dicts
Reverse(s) == [i \in 1..Len(s) |-> s[Len(s) + 1 - i]]
Range(s) == {s[i] : i \in 1..Len(s)}
Butlast(s) == SubSeq(s, 1, Len(s) - 1)
Put(f, k, v) == [x \in (DOMAIN f) \cup {k} |-> IF x = k THEN v ELSE f[x]]
IsPrefix(p, q) == Len(p) <= Len(q) /\ SubSeq(q, 1, Len(p)) = p

RECURSIVE SeqsUpTo(_, _)
SeqsUpTo(S, n) ==
    IF n = 0 THEN {<< >>}
    ELSE LET prev == SeqsUpTo(S, n - 1)
         IN  prev \cup {Append(s, x) : s \in prev, x \in S}

Windows == SeqsUpTo(Words, MaxLen) \ {<< >>}

\* ------------------------------------------------------------- _TrieNode
\* A node is a record of its slots.  `parent` tells what the parent pointer
\* refers to; `shared` tells whether the node object is also reachable from a
\* miner that was passed in as an argument (Python passes references).
Unset == -1    \* slot that __init__ leaves unassigned (root: count, sum_ft, sum_ft2)

\* Bug variant of __init__: a new candidate starts with count 0.
NewNodeUncounted(longform, parent) ==
    [longform |-> longform, count |-> 0, sum_ft |-> 0, sum_ft2 |-> 0,
     score |-> R(1), parent |-> parent, children |-> << >>,
     encoded_tokens |-> << >>, alignment_score |-> R(0),
     best_ancestor_score |-> R(-1), best_descendent_score |-> R(-1),
     shared |-> FALSE]

NewNode(longform, parent) ==
    [longform |-> longform, count |-> 1, sum_ft |-> 0, sum_ft2 |-> 0,
     score |-> R(1), parent |-> parent, children |-> << >>,
     encoded_tokens |-> << >>, alignment_score |-> R(0),
     best_ancestor_score |-> R(-1), best_descendent_score |-> R(-1),
     shared |-> FALSE]

RootNode ==
    [longform |-> << >>, count |-> Unset, sum_ft |-> Unset, sum_ft2 |-> Unset,
     score |-> R(-1), parent |-> "None", children |-> << >>,
     encoded_tokens |-> << >>, alignment_score |-> R(0),
     best_ancestor_score |-> R(-1), best_descendent_score |-> R(-1),
     shared |-> FALSE]

is_root(node) == node.parent = "None"

\* Bug variant of increment_count: the increment is taken to be one.
IncrementCountByOne(node, increment) ==
    [node EXCEPT !.count = @ + 1,
                 !.score = RAdd(@, R(1))]

increment_count(node, increment) ==
    [node EXCEPT !.count = @ + increment,
                 !.score = RAdd(@, R(increment))]

\* Bug variants of update_likelihood.
UpdateLikelihoodUnitIncrement(node, count, increment) ==
    LET s1 == IF node.sum_ft # 0
              THEN RAdd(node.score, Rat(node.sum_ft2, node.sum_ft))
              ELSE node.score
        ft == node.sum_ft + 1
        ft2 == node.sum_ft2 + 2 * count - 1
    IN  [node EXCEPT !.sum_ft = ft, !.sum_ft2 = ft2,
                     !.score = RSub(s1, Rat(ft2, ft))]

UpdateLikelihoodFullSquare(node, count, increment) ==
    LET s1 == IF node.sum_ft # 0
              THEN RAdd(node.score, Rat(node.sum_ft2, node.sum_ft))
              ELSE node.score
        ft == node.sum_ft + increment
        ft2 == node.sum_ft2 + count * count
    IN  [node EXCEPT !.sum_ft = ft, !.sum_ft2 = ft2,
                     !.score = RSub(s1, Rat(ft2, ft))]

UpdateLikelihoodNoUndo(node, count, increment) ==
    LET ft == node.sum_ft + increment
        ft2 == node.sum_ft2 + 2 * count * increment - increment * increment
    IN  [node EXCEPT !.sum_ft = ft, !.sum_ft2 = ft2,
                     !.score = RSub(node.score, Rat(ft2, ft))]

update_likelihood(node, count, increment) ==
    LET s1 == IF node.sum_ft # 0
              THEN RAdd(node.score, Rat(node.sum_ft2, node.sum_ft))
              ELSE node.score
        ft == node.sum_ft + increment
        ft2 == node.sum_ft2 + 2 * count * increment - increment * increment
    IN  [node EXCEPT !.sum_ft = ft, !.sum_ft2 = ft2,
                     !.score = RSub(s1, Rat(ft2, ft))]

\* ------------------------------------------------------------ AdeftMiner
\* WatchfulStemmer.stem (adeft.nlp.stem): maps a surface word to its stem.
Stem(w) == IF w = "bs" THEN "b" ELSE w

Stems == {Stem(w) : w \in Words}

\* WatchfulStemmer.counts: stem -> (word -> count).  An entry is the inner
\* dict and whether that dict object also belongs to another miner's stemmer.
RECURSIVE StemAll(_, _, _)
StemAll(counts, tokens, k) ==
    IF k > Len(tokens) THEN counts
    ELSE LET w == tokens[k]
             st == Stem(w)
             inner == IF st \in DOMAIN counts THEN counts[st]
                      ELSE [counts |-> << >>, shared |-> FALSE]
             n == IF w \in DOMAIN inner.counts THEN inner.counts[w] ELSE 0
         IN  StemAll(Put(counts, st, [inner EXCEPT !.counts = Put(@, w, n + 1)]),
                     tokens, k + 1)

\* dict.update(other): the entries of other replace those of the same key; the
\* values stored are the inner dict objects of other.
DictUpdate(counts, other) ==
    [st \in (DOMAIN counts) \cup (DOMAIN other) |->
       IF st \in DOMAIN other THEN [other[st] EXCEPT !.shared = TRUE]
       ELSE counts[st]]

\* Bug variant of deepcopy: the argument itself.
NoCopy(T) == T

\* copy.deepcopy of a trie or of stemmer counts: new objects throughout.
deepcopy(T) == [q \in DOMAIN T |-> [T[q] EXCEPT !.shared = FALSE]]

\* The objects of a miner as seen by a callee it is passed to.
Foreign(T) == [q \in DOMAIN T |-> [T[q] EXCEPT !.shared = TRUE]]

NewMiner(shortform, window) ==
    [shortform |-> shortform, window |-> window,
     internal_trie |-> (<< >> :> RootNode),
     longforms |-> << >>,
     stemmer |-> << >>,
     alignment_scores_computed |-> FALSE,
     scores_propagated |-> FALSE,
     abs_fit |-> FALSE]

RECURSIVE AddTokens(_, _, _, _)
AddTokens(m, cur, tokens, k) ==
    IF k > Len(tokens) THEN m
    ELSE
    LET token == tokens[k]
        T == m.internal_trie
        c == T[cur]
        cp == Append(cur, token)
    IN  IF token \notin Range(c.children)
        THEN LET new == NewNode(Append(c.longform, token), "owner")
                 c1 == IF ~is_root(c) THEN update_likelihood(c, 1, 1) ELSE c
                 L1 == IF ~is_root(c)
                       THEN Put(m.longforms, Reverse(c1.longform), c1.score)
                       ELSE m.longforms
                 L2 == Put(L1, Reverse(new.longform), new.score)
                 c2 == [c1 EXCEPT !.children = Append(@, token)]
                 T2 == Put(Put(T, cur, c2), cp, new)
             IN  AddTokens([m EXCEPT !.internal_trie = T2, !.longforms = L2],
                           cp, tokens, k + 1)
        ELSE LET ch == increment_count(T[cp], 1)
                 L1 == Put(m.longforms, Reverse(ch.longform), ch.score)
                 c1 == IF ~is_root(c)
                       THEN update_likelihood(c, ch.count, 1) ELSE c
                 L2 == IF ~is_root(c)
                       THEN Put(L1, Reverse(c1.longform), c1.score)
                       ELSE L1
                 T2 == Put(Put(T, cur, c1), cp, ch)
             IN  AddTokens([m EXCEPT !.internal_trie = T2, !.longforms = L2],
                           cp, tokens, k + 1)

\* Bug variant of _add: the stemmed tokens are not put in reverse order.
AddInTextOrder(m, tokens) ==
    AddTokens([m EXCEPT !.stemmer = StemAll(@, tokens, 1)],
              << >>, [i \in 1..Len(tokens) |-> Stem(tokens[i])], 1)

_add(m, tokens) ==
    AddTokens([m EXCEPT !.stemmer = StemAll(@, tokens, 1)],
              << >>, Reverse([i \in 1..Len(tokens) |-> Stem(tokens[i])]), 1)

RECURSIVE AddAll(_, _, _)
AddAll(m, cands, k) ==
    IF k > Len(cands) THEN m ELSE AddAll(_add(m, cands[k]), cands, k + 1)

process_texts(m, cands) ==
    [AddAll(m, cands, 1) EXCEPT !.alignment_scores_computed = FALSE,
                                !.scores_propagated = FALSE]

\* update: merge the trie of `other` (deep-copied) into the trie of `self`.
\* Rt is the deep copy of other's trie, p the common path of (left, right),
\* k the position in right.children, queue the pairs still to be visited
\* (head = next to pop).
RECURSIVE MergeChildren(_, _, _, _, _)
MergeChildren(m, Rt, p, k, queue) ==
    IF k > Len(Rt[p].children) THEN [m |-> m, queue |-> queue]
    ELSE
    LET token == Rt[p].children[k]
        cp == Append(p, token)
        child == Rt[cp]
        T == m.internal_trie
        left == T[p]
    IN  IF token \notin Range(left.children)
        THEN LET sub == {q \in DOMAIN Rt : IsPrefix(cp, q)}
                 left1 == [left EXCEPT !.children = Append(@, token)]
                 left2 == IF ~is_root(left)
                          THEN update_likelihood(left1, child.count, child.count)
                          ELSE left1
                 T1 == [q \in (DOMAIN T) \cup sub |->
                          IF q = p THEN left2
                          ELSE IF q = cp THEN [child EXCEPT !.parent = "detached"]
                          ELSE IF q \in sub THEN Rt[q]
                          ELSE T[q]]
                 L1 == IF ~is_root(left)
                       THEN Put(m.longforms, Reverse(left2.longform), left2.score)
                       ELSE m.longforms
             IN  MergeChildren([m EXCEPT !.internal_trie = T1, !.longforms = L1],
                               Rt, p, k + 1, queue)
        ELSE LET current == increment_count(T[cp], child.count)
                 L1 == Put(m.longforms, Reverse(current.longform), current.score)
                 left2 == IF ~is_root(left)
                          THEN update_likelihood(left, current.count, child.count)
                          ELSE left
                 L2 == IF ~is_root(left)
                       THEN Put(L1, Reverse(left2.longform), left2.score)
                       ELSE L1
                 T1 == Put(Put(T, p, left2), cp, current)
             IN  MergeChildren([m EXCEPT !.internal_trie = T1, !.longforms = L2],
                               Rt, p, k + 1, Append(queue, cp))

RECURSIVE MergeQueue(_, _, _)
MergeQueue(m, Rt, queue) ==
    IF queue = << >> THEN m
    ELSE LET r == MergeChildren(m, Rt, Head(queue), 1, Tail(queue))
         IN  MergeQueue(r.m, Rt, r.queue)

update(self, adeft_miner) ==
    LET Rt == deepcopy(Foreign(adeft_miner.internal_trie))
        other == adeft_miner.longforms
        L0 == [key \in (DOMAIN self.longforms) \cup (DOMAIN other) |->
                 IF key \in DOMAIN self.longforms
                 THEN self.longforms[key] ELSE other[key]]
    IN  MergeQueue([self EXCEPT !.longforms = L0,
                                !.stemmer = DictUpdate(@, adeft_miner.stemmer)],
                   Rt, << << >> >>)

RECURSIVE ComposeFrom(_, _, _)
ComposeFrom(output, adeft_miners, k) ==
    IF k > Len(adeft_miners) THEN output
    ELSE ComposeFrom(update(output, adeft_miners[k]), adeft_miners, k + 1)

compose(adeft_miners) ==
    ComposeFrom([adeft_miners[1] EXCEPT
                   !.internal_trie = deepcopy(Foreign(@)),
                   !.stemmer = deepcopy(Foreign(@))],
                adeft_miners, 2)

\* Bug variant of prune: the depth test is off by one.
RECURSIVE PruneQueueOffByOne(_, _, _)
PruneQueueOffByOne(T, queue, max_depth) ==
    IF queue = << >> THEN T
    ELSE
    LET current == Head(queue)[1]
        depth == Head(queue)[2]
    IN  IF depth > max_depth
        THEN LET keep == {q \in DOMAIN T : ~(IsPrefix(current, q) /\ q # current)}
             IN  PruneQueueOffByOne([q \in keep |->
                                       IF q = current
                                       THEN [T[q] EXCEPT !.children = << >>]
                                       ELSE T[q]],
                                    Tail(queue), max_depth)
        ELSE PruneQueueOffByOne(T,
                        Tail(queue) \o
                          [j \in 1..Len(T[current].children) |->
                             << Append(current, T[current].children[j]), depth + 1 >>],
                        max_depth)

\* prune: queue holds <<path, depth>> pairs, head = next to pop.
RECURSIVE PruneQueue(_, _, _)
PruneQueue(T, queue, max_depth) ==
    IF queue = << >> THEN T
    ELSE
    LET current == Head(queue)[1]
        depth == Head(queue)[2]
    IN  IF depth + 1 > max_depth
        THEN LET keep == {q \in DOMAIN T : ~(IsPrefix(current, q) /\ q # current)}
             IN  PruneQueue([q \in keep |->
                               IF q = current
                               THEN [T[q] EXCEPT !.children = << >>]
                               ELSE T[q]],
                            Tail(queue), max_depth)
        ELSE PruneQueue(T,
                        Tail(queue) \o
                          [j \in 1..Len(T[current].children) |->
                             << Append(current, T[current].children[j]), depth + 1 >>],
                        max_depth)

prune(m, max_depth) ==
    [m EXCEPT !.internal_trie = PruneQueue(@, << << << >>, 0 >> >>, max_depth)]

\* ------------------------------------------- propagation and alignment
\* (Values that are used more than once are handed on as operator arguments,
\* which TLC evaluates once.)
Children(T, p) == [j \in 1..Len(T[p].children) |-> Append(p, T[p].children[j])]

\* Bug variant: the child's own score is left out of the maximum.
SetAncestorScoresParentOnly(T, current, kids) ==
    [q \in DOMAIN T |->
       IF q \in kids
       THEN [T[q] EXCEPT !.best_ancestor_score =
               RMax(T[current].score, T[current].best_ancestor_score)]
       ELSE T[q]]

\* Body of the for loop of _propagate_scores for the children of `current`.
SetAncestorScores(T, current, kids) ==
    [q \in DOMAIN T |->
       IF q \in kids
       THEN [T[q] EXCEPT !.best_ancestor_score =
               IF RGt(T[q].score, T[current].best_ancestor_score)
               THEN T[q].score
               ELSE T[current].best_ancestor_score]
       ELSE T[q]]

\* First loop of _propagate_scores (queue: head = next to pop).  Returns the
\* trie and the node popped last.
RECURSIVE PropagateQueue(_, _)
PropagateQueue(T, queue) ==
    IF Len(queue) = 1 /\ T[Head(queue)].children = << >>
    THEN [T |-> T, current |-> Head(queue)]
    ELSE PropagateQueue(
           SetAncestorScores(T, Head(queue), Range(Children(T, Head(queue)))),
           Tail(queue) \o Children(T, Head(queue)))

\* The inner while loop of _propagate_scores, started from `current`.
\* A detached parent is not a node of this trie: what the loop writes from
\* there on is written to nodes no trie contains.
RECURSIVE Ascend(_, _)
Ascend(T, current) ==
    IF T[current].parent # "owner" THEN T
    ELSE IF RGt(T[current].best_descendent_score, T[Butlast(current)].score)
            \/ T[Butlast(current)].best_descendent_score = R(0)
         THEN Ascend([T EXCEPT ![Butlast(current)].best_descendent_score =
                         IF RGt(T[Butlast(current)].score,
                                T[current].best_descendent_score)
                         THEN T[Butlast(current)].score
                         ELSE T[current].best_descendent_score],
                     Butlast(current))
         ELSE T

\* The statements of _propagate_scores after its while loop.
AfterLoop(T, current) ==
    IF T[current].children = << >>
    THEN Ascend([T EXCEPT ![current].best_descendent_score = T[current].score],
                current)
    ELSE T

PropagateFrom(r) == AfterLoop(r.T, r.current)

_propagate_scores(m) ==
    [m EXCEPT !.internal_trie = PropagateFrom(PropagateQueue(@, << << >> >>))]

\* AlignmentBasedScorer._next_score (adeft.score): stand-in for the external
\* scorer.  The state threaded along a path is the tokens seen so far; the
\* score is the share of the shortform's characters the path accounts for.
DefaultParams == "default"
Prize(token, params) ==
    IF params = DefaultParams THEN (IF token = "a" THEN 1 ELSE 0)
    ELSE (IF token = "b" THEN 1 ELSE 0)

RECURSIVE SumPrize(_, _)
SumPrize(tokens, params) ==
    IF tokens = << >> THEN 0
    ELSE Prize(Head(tokens), params) + SumPrize(Tail(tokens), params)

Capped(n) == Rat(IF n > ShortformLen THEN ShortformLen ELSE n, ShortformLen)

_next_score(token, alignment_score, encoded_tokens, params) ==
    [alignment_score |-> Capped(SumPrize(Append(encoded_tokens, token), params)),
     encoded_tokens |-> Append(encoded_tokens, token)]

SetAlignment(node, new_data) ==
    [node EXCEPT !.alignment_score = new_data.alignment_score,
                 !.encoded_tokens = new_data.encoded_tokens]

\* Body of the for loop of compute_alignment_scores for the children of `current`.
AlignChildren(T, current, kids, params) ==
    [q \in DOMAIN T |->
       IF q \in kids
       THEN SetAlignment(T[q], _next_score(q[Len(q)], T[current].alignment_score,
                                           T[current].encoded_tokens, params))
       ELSE T[q]]

RECURSIVE AlignQueue(_, _, _)
AlignQueue(T, queue, params) ==
    IF queue = << >> THEN T
    ELSE AlignQueue(
           AlignChildren(T, Head(queue), Range(Children(T, Head(queue))), params),
           Tail(queue) \o Children(T, Head(queue)), params)

\* Bug variant: the children of a popped node are not put on the queue.
RECURSIVE AlignOrderNoDescent(_, _)
AlignOrderNoDescent(T, queue) ==
    IF queue = << >> THEN << >>
    ELSE Children(T, Head(queue)) \o AlignOrderNoDescent(T, Tail(queue))

\* The nodes in the order in which the loop of compute_alignment_scores
\* assigns their alignment state (queue as in AlignQueue).
RECURSIVE AlignOrder(_, _)
AlignOrder(T, queue) ==
    IF queue = << >> THEN << >>
    ELSE Children(T, Head(queue))
           \o AlignOrder(T, Tail(queue) \o Children(T, Head(queue)))

compute_alignment_scores(m, params) ==
    [m EXCEPT !.internal_trie = AlignQueue(@, << << >> >>, params),
              !.abs_fit = TRUE]

\* ------------------------------------------------- candidate extraction
ScaledFrom(numerator, denominator) ==
    IF RLe(denominator, R(0)) THEN R(0) ELSE RDiv(numerator, denominator)

scaled_score(node, smoothing_param) ==
    ScaledFrom(RSub(node.score, R(1)),
               RAdd(RMax(node.best_ancestor_score, node.best_descendent_score),
                    R(smoothing_param - 1)))

\* score_func of get_longforms.  With use_abs the blend is taken at
\* abs_decay_param = 0, where phi = exp(0) = 1 and the blended score is the
\* alignment score; other decay values need exp and are not modelled.
score_func(node, use_abs, smoothing_param) ==
    IF use_abs
    THEN << node.alignment_score, node.count >>
    ELSE << scaled_score(node, smoothing_param), node.count >>

Cand(node, use_abs, smoothing_param) ==
    [longform |-> node.longform,
     score |-> score_func(node, use_abs, smoothing_param)[1],
     count |-> score_func(node, use_abs, smoothing_param)[2]]

\* Bug variants of the comprehension: the comparison reversed, and not strict.
KeepBelow(child_longforms, node, own) ==
    SelectSeq(child_longforms, LAMBDA c : is_root(node) \/ RLt(c.score, own))

KeepAboveOrEqual(child_longforms, node, own) ==
    SelectSeq(child_longforms, LAMBDA c : is_root(node) \/ RLe(own, c.score))

\* The list comprehension of _get_longform_helper for one child's candidates.
KeepAbove(child_longforms, node, own) ==
    SelectSeq(child_longforms, LAMBDA c : is_root(node) \/ RGt(c.score, own))

\* Bug variant: a non-root node is a candidate beside those of its subtree.
OrSelfAlways(result, node, use_abs, smoothing_param) ==
    IF result = << >> \/ ~is_root(node)
    THEN result \o << Cand(node, use_abs, smoothing_param) >>
    ELSE result

\* Bug variant: a non-root node is listed ahead of its subtree's candidates.
OrSelfPrepended(result, node, use_abs, smoothing_param) ==
    IF result = << >> \/ ~is_root(node)
    THEN << Cand(node, use_abs, smoothing_param) >> \o result
    ELSE result

OrSelf(result, node, use_abs, smoothing_param) ==
    IF result = << >> THEN << Cand(node, use_abs, smoothing_param) >> ELSE result

RECURSIVE _get_longform_helper(_, _, _, _)
RECURSIVE HelperChildren(_, _, _, _, _)
HelperChildren(T, p, k, use_abs, smoothing_param) ==
    IF k > Len(T[p].children) THEN << >>
    ELSE KeepAbove(_get_longform_helper(T, Append(p, T[p].children[k]),
                                        use_abs, smoothing_param),
                   T[p], score_func(T[p], use_abs, smoothing_param)[1])
           \o HelperChildren(T, p, k + 1, use_abs, smoothing_param)

_get_longform_helper(T, p, use_abs, smoothing_param) ==
    IF T[p].children = << >>
    THEN << Cand(T[p], use_abs, smoothing_param) >>
    ELSE OrSelf(HelperChildren(T, p, 1, use_abs, smoothing_param),
                T[p], use_abs, smoothing_param)

\* Sort key of get_longforms: (-count, -score, text).
TokenRank(t) == IF t = "a" THEN 1 ELSE 2

RECURSIVE LexLt(_, _)
LexLt(s, t) ==
    IF t = << >> THEN FALSE
    ELSE IF s = << >> THEN TRUE
    ELSE IF TokenRank(Head(s)) # TokenRank(Head(t))
         THEN TokenRank(Head(s)) < TokenRank(Head(t))
         ELSE LexLt(Tail(s), Tail(t))

Before(x, y) ==
    IF x.count # y.count THEN x.count > y.count
    ELSE IF x.score # y.score THEN RGt(x.score, y.score)
    ELSE LexLt(x.longform, y.longform)

RECURSIVE Insert(_, _)
Insert(x, sorted) ==
    IF sorted = << >> THEN << x >>
    ELSE IF Before(x, Head(sorted)) THEN << x >> \o sorted
    ELSE << Head(sorted) >> \o Insert(x, Tail(sorted))

RECURSIVE Sorted(_)
Sorted(s) == IF s = << >> THEN << >> ELSE Insert(Head(s), Sorted(Tail(s)))

\* _make_readable: the stems in natural order (the stemmer's most frequent
\* surface form of a stem is the stem's word itself here).
_make_readable(tokens) == Reverse(tokens)

\* max_length is [kind |-> "auto"], [kind |-> "None"] or [kind |-> "int", n |-> k].
Auto == [kind |-> "auto"]
MaxLengthOf(max_length) ==
    IF max_length.kind = "auto"
    THEN [kind |-> "int", n |-> 2 * ShortformLen + 1]
    ELSE max_length

Propagated(m) ==
    IF ~m.scores_propagated
    THEN [_propagate_scores(m) EXCEPT !.scores_propagated = TRUE]
    ELSE m

Aligned(m, use_abs) ==
    IF use_abs /\ ~m.alignment_scores_computed
    THEN [compute_alignment_scores(m, DefaultParams)
            EXCEPT !.alignment_scores_computed = TRUE]
    ELSE m

\* The miner after get_longforms has run its passes.
Prepared(m, use_abs) == Aligned(Propagated(m), use_abs)

Readable(f) ==
    [j \in 1..Len(f) |->
       [longform |-> _make_readable(f[j].longform),
        score |-> f[j].score, count |-> f[j].count]]

\* Bug variant of the cutoff filter: a score equal to the cutoff is kept.
FilteredAtOrAbove(helper, cutoff, max_length) ==
    Readable(SelectSeq(SelectSeq(helper, LAMBDA c : RLe(cutoff, c.score)),
                       LAMBDA c : max_length.kind = "None"
                                  \/ Len(c.longform) <= max_length.n))

Filtered(helper, cutoff, max_length) ==
    Readable(SelectSeq(SelectSeq(helper, LAMBDA c : RGt(c.score, cutoff)),
                       LAMBDA c : max_length.kind = "None"
                                  \/ Len(c.longform) <= max_length.n))

\* score_func reads node.count: an unset slot raises AttributeError.
Raises(helper) == \E j \in 1..Len(helper) : helper[j].count = Unset

Extracted(m1, helper, cutoff, max_length) ==
    [miner |-> m1,
     helper |-> helper,
     raised |-> Raises(helper),
     longforms |-> IF Raises(helper) THEN << >>
                   ELSE Sorted(Filtered(helper, cutoff, MaxLengthOf(max_length)))]

Extract(m1, cutoff, smoothing_param, max_length, use_abs) ==
    Extracted(m1,
              _get_longform_helper(m1.internal_trie, << >>, use_abs, smoothing_param),
              cutoff, max_length)

get_longforms(m, cutoff, smoothing_param, max_length, use_abs) ==
    Extract(Prepared(m, use_abs), cutoff, smoothing_param, max_length, use_abs)

\* -------------------------------------------------------- serialization
\* A Python dict of the persisted form is [keys |-> its keys in insertion
\* order, val |-> the value of each key].
EmptyDict == [keys |-> << >>, val |-> << >>]

RECURSIVE TrieToDict(_, _)
TrieToDict(T, p) ==
    IF T[p].children = << >> THEN EmptyDict
    ELSE [keys |-> T[p].children,
          val |-> [token \in Range(T[p].children) |->
                     [count |-> T[Append(p, token)].count,
                      score |-> T[Append(p, token)].score,
                      sum_ft |-> T[Append(p, token)].sum_ft,
                      sum_ft2 |-> T[Append(p, token)].sum_ft2,
                      longform |-> T[Append(p, token)].longform,
                      children |-> TrieToDict(T, Append(p, token))]]]

\* str(key) of a tuple of str, as the sequence of its characters (a token is
\* one character): ('a', 'b') is "('a', 'b')" and ('a',) is "('a',)".
RECURSIVE StrItems(_, _)
StrItems(key, k) ==
    IF k > Len(key) THEN << >>
    ELSE << "'", key[k], "'" >>
           \o (IF k < Len(key) THEN << ",", " " >> ELSE << >>)
           \o StrItems(key, k + 1)

TupleStr(key) ==
    << "(" >> \o StrItems(key, 1)
       \o (IF Len(key) = 1 THEN << "," >> ELSE << >>) \o << ")" >>

\* ast.literal_eval of such a string: the items between the parentheses; one
\* item without a comma is a parenthesised str, not a tuple.
RECURSIVE EvalItems(_, _, _, _)
EvalItems(s, k, items, commas) ==
    IF k > Len(s) \/ s[k] = ")" THEN
        IF commas = 0 /\ Len(items) = 1
        THEN [kind |-> "str", items |-> items]
        ELSE [kind |-> "tuple", items |-> items]
    ELSE IF s[k] = "'" THEN EvalItems(s, k + 3, Append(items, s[k + 1]), commas)
    ELSE IF s[k] = "," THEN EvalItems(s, k + 1, items, commas + 1)
    ELSE EvalItems(s, k + 1, items, commas)

literal_eval(s) == EvalItems(s, 2, << >>, 0)

\* A parsed key as a key of _longforms: a tuple is its items; a str is not a
\* tuple and equals none.
AsKey(v) == IF v.kind = "tuple" THEN v.items ELSE << "str" >> \o v.items

to_dict(m) ==
    [shortform |-> m.shortform,
     internal_trie |-> TrieToDict(m.internal_trie, << >>),
     longforms |-> [s \in {TupleStr(key) : key \in DOMAIN m.longforms} |->
                      m.longforms[CHOOSE key \in DOMAIN m.longforms :
                                    TupleStr(key) = s]],
     stemmer |-> [st \in DOMAIN m.stemmer |-> m.stemmer[st].counts],
     window |-> m.window]

\* _load_trie_helper: the nodes of the subtree of `entry`, which sits at path p.
RECURSIVE _load_trie_helper(_, _)
RECURSIVE LoadChildren(_, _, _)
LoadChildren(d, p, k) ==
    IF k > Len(d.keys) THEN << >>
    ELSE _load_trie_helper(d.val[d.keys[k]], Append(p, d.keys[k]))
           @@ LoadChildren(d, p, k + 1)

\* Bug variant of _load_trie_helper: sum_ft2 is not restored.
LoadedNodeNoSumFt2(entry) ==
    [(IF entry.longform # << >>
      THEN NewNode(entry.longform, "owner")
      ELSE [RootNode EXCEPT !.parent = "owner"])
       EXCEPT !.count = entry.count, !.score = entry.score,
              !.sum_ft = entry.sum_ft,
              !.children = entry.children.keys]

LoadedNode(entry) ==
    [(IF entry.longform # << >>
      THEN NewNode(entry.longform, "owner")
      ELSE [RootNode EXCEPT !.parent = "owner"])
       EXCEPT !.count = entry.count, !.score = entry.score,
              !.sum_ft = entry.sum_ft, !.sum_ft2 = entry.sum_ft2,
              !.children = entry.children.keys]

_load_trie_helper(entry, p) ==
    (p :> LoadedNode(entry)) @@ LoadChildren(entry.children, p, 1)

load_trie(trie_dict, shortform) ==
    (<< >> :> [RootNode EXCEPT !.children = trie_dict.keys])
      @@ LoadChildren(trie_dict, << >>, 1)

load_adeft_miner_from_dict(dictionary) ==
    [NewMiner(dictionary.shortform, dictionary.window) EXCEPT
       !.internal_trie = load_trie(dictionary.internal_trie, dictionary.shortform),
       !.longforms = [key \in {AsKey(literal_eval(s)) :
                                 s \in DOMAIN dictionary.longforms} |->
                        dictionary.longforms[
                          CHOOSE s \in DOMAIN dictionary.longforms :
                            AsKey(literal_eval(s)) = key]],
       !.stemmer = [st \in DOMAIN dictionary.stemmer |->
                      [counts |-> dictionary.stemmer[st], shared |-> FALSE]]]

\* The subscriptions entry[...] of _load_trie_helper and its recursion, on a
\* dictionary whose entries may lack keys: the key of the first KeyError, or
\* "" when the whole dictionary loads.
EntryFields == << "longform", "count", "score", "sum_ft", "sum_ft2", "children" >>

RECURSIVE FirstMissing(_, _, _)
FirstMissing(entry, fields, k) ==
    IF k > Len(fields) THEN ""
    ELSE IF fields[k] \notin DOMAIN entry THEN fields[k]
    ELSE FirstMissing(entry, fields, k + 1)

\* Bug variant: sum_ft2 is read with a default.
ReadFieldsLenient(entry) ==
    FirstMissing(entry, << "longform", "count", "score", "sum_ft", "children" >>, 1)

ReadFields(entry) == FirstMissing(entry, EntryFields, 1)

RECURSIVE DictError(_, _)
EntryError(entry) ==
    IF ReadFields(entry) # "" THEN ReadFields(entry)
    ELSE DictError(entry.children, 1)

DictError(d, k) ==
    IF k > Len(d.keys) THEN ""
    ELSE IF EntryError(d.val[d.keys[k]]) # "" THEN EntryError(d.val[d.keys[k]])
    ELSE DictError(d, k + 1)

\* What a call of load_adeft_miner_from_dict comes to: a KeyError raised by
\* load_trie, or a miner returned.
LoadOutcome(dictionary) ==
    IF DictError(dictionary.internal_trie, 1) # ""
    THEN [raised |-> TRUE, returned |-> FALSE,
          error |-> [type |-> "KeyError",
                     arg |-> DictError(dictionary.internal_trie, 1)]]
    ELSE [raised |-> FALSE, returned |-> TRUE,
          error |-> [type |-> "None", arg |-> ""]]

\* A persisted trie with one key deleted from the entry of the node at path p
\* (k tokens of p already descended).
RECURSIVE WithoutField(_, _, _, _)
WithoutField(d, p, k, field) ==
    [d EXCEPT !.val[p[k]] =
       IF k = Len(p)
       THEN [f \in (DOMAIN @) \ {field} |-> @[f]]
       ELSE [@ EXCEPT !.children = WithoutField(@, p, k + 1, field)]]

\* ----------------------------------------------------------------- state
\* miner : the AdeftMiner under study
\* hist  : the token windows it holds, in the order A then B of "ingest A,
\*         then B" (a merge appends the windows of the miner merged in)
\* pruned: prune has removed a node from it
\* ret   : the last call and what it returned
VARIABLES miner, hist, pruned, ret

vars == << miner, hist, pruned, ret >>

Init ==
    /\ miner = NewMiner(Shortform, DefaultWindow)
    /\ hist = << >>
    /\ pruned = FALSE
    /\ ret = [op |-> "init"]

\* A second miner, for the given shortform, that has ingested the windows B.
TrainedAs(shortform, B) == process_texts(NewMiner(shortform, DefaultWindow), B)

Trained(B) == TrainedAs(Shortform, B)

\* Shortforms of the miners passed to update.
Shortforms == {Shortform, "PR"}

Others == SeqsUpTo(Windows, MaxOther)

ProcessTexts(cands) ==
    /\ Len(hist) + Len(cands) <= MaxHist
    /\ miner' = process_texts(miner, cands)
    /\ hist' = hist \o cands
    /\ ret' = [op |-> "process_texts"]
    /\ UNCHANGED pruned

\* miner.update(other), other a miner for `shortform` trained on B; update has
\* no raise statement.
Update(B, shortform) ==
    /\ Len(hist) + Len(B) <= MaxMerged
    /\ miner' = update(miner, TrainedAs(shortform, B))
    /\ hist' = hist \o B
    /\ ret' = [op |-> "update", shortform |-> shortform, raised |-> FALSE]
    /\ UNCHANGED pruned

\* miner = compose(miner, other) and miner = compose(other, miner)
Compose(B, first) ==
    /\ Len(hist) + Len(B) <= MaxMerged
    /\ miner' = IF first THEN compose(<< miner, Trained(B) >>)
                         ELSE compose(<< Trained(B), miner >>)
    /\ hist' = IF first THEN hist \o B ELSE B \o hist
    /\ ret' = [op |-> "compose"]
    /\ UNCHANGED pruned

Prune(max_depth) ==
    /\ miner' = prune(miner, max_depth)
    /\ pruned' = (pruned \/ DOMAIN prune(miner, max_depth).internal_trie
                             # DOMAIN miner.internal_trie)
    /\ ret' = [op |-> "prune"]
    /\ UNCHANGED hist

\* miner = load_adeft_miner_from_dict(miner.to_dict())
Reload ==
    /\ miner' = load_adeft_miner_from_dict(to_dict(miner))
    /\ ret' = [op |-> "load"]
    /\ UNCHANGED << hist, pruned >>

Cutoffs == {Rat(1, 10)}
MaxLengths == {Auto}
\* << smoothing_param, use_abs >>
QueryInputs == {<< 4, FALSE >>, << 4, TRUE >>}

Returned(r, cutoff, smoothing_param, max_length, use_abs) ==
    /\ miner' = r.miner
    /\ ret' = [op |-> "get_longforms", use_abs |-> use_abs,
               propagated |-> ~miner.scores_propagated,
               aligned |-> (use_abs /\ ~miner.alignment_scores_computed),
               smoothing_param |-> smoothing_param, cutoff |-> cutoff,
               max_length |-> max_length, helper |-> r.helper,
               raised |-> r.raised, longforms |-> r.longforms]
    /\ UNCHANGED << hist, pruned >>

GetLongforms(cutoff, smoothing_param, max_length, use_abs) ==
    Returned(get_longforms(miner, cutoff, smoothing_param, max_length, use_abs),
             cutoff, smoothing_param, max_length, use_abs)

\* The mutating operations.
Next ==
    \/ \E cands \in SeqsUpTo(Windows, 1) : ProcessTexts(cands)
    \/ \E B \in Others : Update(B, Shortform)
    \/ \E B \in Others, first \in BOOLEAN : Compose(B, first)
    \/ \E max_depth \in 0..MaxLen : Prune(max_depth)
    \/ Reload

Spec == Init /\ [][Next]_vars

\* Ingestion, merging and candidate extraction.
NextQuery ==
    \/ \E cands \in SeqsUpTo(Windows, 1) : ProcessTexts(cands)
    \/ \E B \in Others : Update(B, Shortform)
    \/ \E cutoff \in Cutoffs, max_length \in MaxLengths, q \in QueryInputs :
             GetLongforms(cutoff, q[1], max_length, q[2])

SpecQuery == Init /\ [][NextQuery]_vars

\* miner.compute_alignment_scores(**params)
ComputeAlignment(params) ==
    /\ miner' = compute_alignment_scores(miner, params)
    /\ ret' = [op |-> "compute_alignment_scores", params |-> params,
               assigned |-> AlignOrder(miner.internal_trie, << << >> >>)]
    /\ UNCHANGED << hist, pruned >>

AlignmentParams == {DefaultParams, "custom"}
CutoffPair == {Rat(1, 10), Rat(1, 2)}

\* Ingestion, alignment scoring and repeated candidate extraction.
NextAlign ==
    \/ \E cands \in SeqsUpTo(Windows, 1) : ProcessTexts(cands)
    \/ \E params \in AlignmentParams : ComputeAlignment(params)
    \/ \E cutoff \in CutoffPair, max_length \in MaxLengths, use_abs \in BOOLEAN :
             GetLongforms(cutoff, 4, max_length, use_abs)

SpecAlign == Init /\ [][NextAlign]_vars

\* Ingestion, merging, pruning, reloading and the alignment pass.
NextPass ==
    \/ \E cands \in SeqsUpTo(Windows, 1) : ProcessTexts(cands)
    \/ \E B \in Others : Update(B, Shortform)
    \/ \E max_depth \in 0..MaxLen : Prune(max_depth)
    \/ Reload
    \/ \E params \in AlignmentParams : ComputeAlignment(params)

SpecPass == Init /\ [][NextPass]_vars

\* load_adeft_miner_from_dict(d), d the dump of miner with one key deleted
\* from the entry of the node at path p.
LoadMalformed(p, field) ==
    /\ p \in DOMAIN miner.internal_trie
    /\ p # << >>
    /\ ret' = [op |-> "load_malformed", path |-> p, field |-> field,
               outcome |-> LoadOutcome(
                   [to_dict(miner) EXCEPT
                      !.internal_trie = WithoutField(@, p, 1, field)])]
    /\ UNCHANGED << miner, hist, pruned >>

\* Ingestion and loading of damaged dumps.
NextLoad ==
    \/ \E cands \in SeqsUpTo(Windows, 1) : ProcessTexts(cands)
    \/ \E p \in SeqsUpTo(Stems, MaxLen), field \in Range(EntryFields) :
             LoadMalformed(p, field)

SpecLoad == Init /\ [][NextLoad]_vars

\* Ingestion and merging of miners for the same and for another shortform.
NextMerge ==
    \/ \E cands \in SeqsUpTo(Windows, 1) : ProcessTexts(cands)
    \/ \E B \in Others, shortform \in Shortforms : Update(B, shortform)

SpecMerge == Init /\ [][NextMerge]_vars

\* --------------------------------------------------------------- claims
NonRoot(T) == {p \in DOMAIN T : ~is_root(T[p])}

RECURSIVE ChildCounts(_, _, _)
ChildCounts(T, p, k) ==
    IF k > Len(T[p].children) THEN 0
    ELSE T[Append(p, T[p].children[k])].count + ChildCounts(T, p, k + 1)

RECURSIVE ChildSquares(_, _, _)
ChildSquares(T, p, k) ==
    IF k > Len(T[p].children) THEN 0
    ELSE T[Append(p, T[p].children[k])].count * T[Append(p, T[p].children[k])].count
           + ChildSquares(T, p, k + 1)

\* C1: after ingestions and merges (no prune), every non-root node's sum_ft is
\* the sum of its direct children's counts and its sum_ft2 the sum of their
\* squares.
C1_SumsMatchChildren ==
    ~pruned =>
        \A p \in NonRoot(miner.internal_trie) :
            /\ miner.internal_trie[p].sum_ft = ChildCounts(miner.internal_trie, p, 1)
            /\ miner.internal_trie[p].sum_ft2 = ChildSquares(miner.internal_trie, p, 1)

\* A merge has just added to a node that has a child seen more than once.
C1_Witness ==
    /\ ret.op = "update"
    /\ ~pruned
    /\ \E p \in NonRoot(miner.internal_trie) :
          /\ Len(miner.internal_trie[p].children) = 2
          /\ miner.internal_trie[p].sum_ft2 > miner.internal_trie[p].sum_ft

Sequential == AddAll(NewMiner(Shortform, DefaultWindow), hist, 1)

SameStatistics(m, ref) ==
    /\ DOMAIN m.internal_trie = DOMAIN ref.internal_trie
    /\ \A p \in NonRoot(m.internal_trie) :
          /\ m.internal_trie[p].count = ref.internal_trie[p].count
          /\ m.internal_trie[p].sum_ft = ref.internal_trie[p].sum_ft
          /\ m.internal_trie[p].sum_ft2 = ref.internal_trie[p].sum_ft2
          /\ m.internal_trie[p].score = ref.internal_trie[p].score
    /\ m.longforms = ref.longforms

\* C3: merge equivalence.  A miner built by ingesting A and merging in miners
\* that ingested B has the nodes, count, sum_ft, sum_ft2, score and _longforms
\* of the one miner that ingested A then B.
C3_MergeEquivalence == ~pruned => SameStatistics(miner, Sequential)

\* A merge attached a foreign subtree and added a batch count of two.
C3_Witness ==
    /\ ret.op \in {"update", "compose"}
    /\ ~pruned
    /\ \E p \in NonRoot(miner.internal_trie) :
          miner.internal_trie[p].parent = "detached" /\ Len(p) = 2
    /\ \E p \in NonRoot(miner.internal_trie) :
          miner.internal_trie[p].count >= 2 /\ miner.internal_trie[p].sum_ft2 >= 4

RoundTrip(m, loaded) ==
    /\ loaded.shortform = m.shortform
    /\ loaded.window = m.window
    /\ DOMAIN loaded.internal_trie = DOMAIN m.internal_trie
    /\ \A p \in NonRoot(m.internal_trie) :
          /\ loaded.internal_trie[p].longform = m.internal_trie[p].longform
          /\ loaded.internal_trie[p].count = m.internal_trie[p].count
          /\ loaded.internal_trie[p].sum_ft = m.internal_trie[p].sum_ft
          /\ loaded.internal_trie[p].sum_ft2 = m.internal_trie[p].sum_ft2
          /\ loaded.internal_trie[p].score = m.internal_trie[p].score
          /\ loaded.internal_trie[p].children = m.internal_trie[p].children
    /\ loaded.internal_trie[<< >>].children = m.internal_trie[<< >>].children
    /\ loaded.longforms = m.longforms

\* C5: load_adeft_miner_from_dict(miner.to_dict()) has the shortform, window,
\* nodes (longform, count, sum_ft, sum_ft2, score, children keys) and
\* _longforms keys and values of the miner.
C5_SerializationRoundTrip ==
    RoundTrip(miner, load_adeft_miner_from_dict(to_dict(miner)))

\* A miner with one-token and two-token keys and a merged-in count was loaded.
C5_Witness ==
    /\ ret.op = "load"
    /\ << "a" >> \in DOMAIN miner.longforms
    /\ \E key \in DOMAIN miner.longforms : Len(key) = 2
    /\ \E p \in NonRoot(miner.internal_trie) : miner.internal_trie[p].sum_ft2 >= 4

\* ---------------------------------------------- flags and propagation
\* C4: every mutation of the trie by process_texts or update leaves both
\* staleness flags false.
C4_MutationInvalidatesFlags ==
    [][(/\ ret'.op \in {"process_texts", "update"}
        /\ miner'.internal_trie # miner.internal_trie)
       => (~miner'.scores_propagated /\ ~miner'.alignment_scores_computed)]_vars

MaxR(S) == CHOOSE x \in S : \A y \in S : RLe(y, x)

Subtree(T, p) == {q \in DOMAIN T : IsPrefix(p, q)}
Leaves(T) == {p \in DOMAIN T : T[p].children = << >>}
\* p and its proper ancestors other than the root
UpTo(p) == {SubSeq(p, 1, k) : k \in 1..Len(p)}

JustPropagated == ret.op = "get_longforms" /\ ret.propagated

\* C6: after _propagate_scores, every non-root node's best_descendent_score is
\* the maximum of its own score and the scores of all its descendants.
C6_BestDescendentScore ==
    JustPropagated =>
        \A p \in NonRoot(miner.internal_trie) :
            miner.internal_trie[p].best_descendent_score
              = MaxR({miner.internal_trie[q].score : q \in Subtree(miner.internal_trie, p)})

\* C7 as stated: after _propagate_scores, every non-root node's
\* best_ancestor_score is the maximum score of its proper ancestors other than
\* the root (the root's -1 when it has none); its own score is not part of it.
C7_ProperAncestorsOnly ==
    JustPropagated =>
        \A p \in NonRoot(miner.internal_trie) :
            miner.internal_trie[p].best_ancestor_score
              = MaxR({miner.internal_trie[q].score : q \in UpTo(p) \ {p}} \cup {R(-1)})

\* C7 amended: after _propagate_scores, every non-root node's
\* best_ancestor_score is the maximum of its own score and the scores of its
\* proper ancestors other than the root.
C7_SelfAndAncestors ==
    JustPropagated =>
        \A p \in NonRoot(miner.internal_trie) :
            miner.internal_trie[p].best_ancestor_score
              = MaxR({miner.internal_trie[q].score : q \in UpTo(p)})

\* Propagation ran on a trie where a two-token node scores below its parent
\* and another scores above its parent.
C7_Witness ==
    /\ JustPropagated
    /\ \E p \in NonRoot(miner.internal_trie) :
          /\ Len(p) = 2
          /\ RLt(miner.internal_trie[p].score, miner.internal_trie[Butlast(p)].score)
    /\ \E p \in NonRoot(miner.internal_trie) :
          /\ Len(p) = 2
          /\ RGt(miner.internal_trie[p].score, miner.internal_trie[Butlast(p)].score)

\* ------------------------------------------------- candidate extraction
\* The value score_func gave a node in the last get_longforms call.
Value(p) == score_func(miner.internal_trie[p], ret.use_abs, ret.smoothing_param)[1]

Extracting == ret.op = "get_longforms" /\ ~ret.raised

\* Paths of the candidates of the helper, and of those returned (a returned
\* longform is in natural order).
HelperNodes == {ret.helper[j].longform : j \in 1..Len(ret.helper)}
ReturnedNodes == {Reverse(ret.longforms[j].longform) : j \in 1..Len(ret.longforms)}

LocalMaximum(p) ==
    \/ miner.internal_trie[p].children = << >>
    \/ \A q \in Range(Children(miner.internal_trie, p)) : RLe(Value(q), Value(p))

\* C8: every candidate of get_longforms on a non-empty trie is a leaf or has
\* no direct child of greater value.
C8_LocalMaximum ==
    Extracting =>
        /\ ReturnedNodes \subseteq HelperNodes
        /\ \A p \in HelperNodes : LocalMaximum(p)

\* A returned candidate has children, none of greater value.
C8_Witness ==
    /\ Extracting
    /\ \E p \in ReturnedNodes :
          /\ Len(miner.internal_trie[p].children) = 2
          /\ \A q \in Range(Children(miner.internal_trie, p)) : RLt(Value(q), Value(p))

OnPath(leaf) == {p \in HelperNodes : IsPrefix(p, leaf)}

\* C9 as stated: before the cutoff and max_length filters, the candidates of
\* _get_longform_helper from the root hold exactly one node of every
\* root-to-leaf path.
C9_ExactlyOnePerPath ==
    Extracting =>
        \A leaf \in Leaves(miner.internal_trie) : Cardinality(OnPath(leaf)) = 1

\* C9 amended: they hold at most one node of every root-to-leaf path, and at
\* least one candidate.
C9_AtMostOnePerPath ==
    Extracting =>
        /\ Len(ret.helper) = Cardinality(HelperNodes)
        /\ HelperNodes # {}
        /\ \A leaf \in Leaves(miner.internal_trie) : Cardinality(OnPath(leaf)) <= 1

\* One root-to-leaf path has its candidate, a sibling path has none.
C9_Witness ==
    /\ Extracting
    /\ \E leaf \in Leaves(miner.internal_trie) : Cardinality(OnPath(leaf)) = 1
    /\ \E leaf \in Leaves(miner.internal_trie) : Cardinality(OnPath(leaf)) = 0

\* C10: every candidate returned by get_longforms has a value strictly greater
\* than the value of each of its proper ancestors other than the root.
C10_AboveAncestors ==
    Extracting =>
        \A p \in ReturnedNodes :
            \A q \in UpTo(p) \ {p} : RGt(Value(p), Value(q))

\* A two-token candidate was returned.
C10_Witness ==
    /\ Extracting
    /\ \E p \in ReturnedNodes : Len(p) = 2 /\ RGt(Value(Butlast(p)), R(0))

\* ------------------------------------------------------- cutoff filter
SameCall(r1, r2) ==
    /\ r1.use_abs = r2.use_abs
    /\ r1.smoothing_param = r2.smoothing_param
    /\ r1.max_length = r2.max_length

Answered(r) == r.op = "get_longforms" /\ ~r.raised

\* C11: every candidate get_longforms returns has a value above the cutoff,
\* and of two calls on the same trie that differ in the cutoff only, the one
\* with the higher cutoff returns a subset of what the other returns.
C11_MonotoneCutoff ==
    [][Answered(ret') =>
         /\ \A j \in 1..Len(ret'.longforms) :
               RGt(ret'.longforms[j].score, ret'.cutoff)
         /\ (Answered(ret) /\ SameCall(ret, ret')) =>
               /\ RLe(ret.cutoff, ret'.cutoff) =>
                     Range(ret'.longforms) \subseteq Range(ret.longforms)
               /\ RLe(ret'.cutoff, ret.cutoff) =>
                     Range(ret.longforms) \subseteq Range(ret'.longforms)]_vars

\* The higher cutoff kept one candidate and dropped another that the lower
\* cutoff keeps.
C11_Witness ==
    /\ Answered(ret)
    /\ ret.longforms # << >>
    /\ \E c \in CutoffPair, j \in 1..Len(ret.helper) :
          /\ RLt(c, ret.cutoff)
          /\ RGt(ret.helper[j].score, c)
          /\ RLe(ret.helper[j].score, ret.cutoff)

\* ---------------------------------------------------------------- prune
SameNodeStatistics(n1, n2) ==
    /\ n1.count = n2.count
    /\ n1.sum_ft = n2.sum_ft
    /\ n1.sum_ft2 = n2.sum_ft2
    /\ n1.score = n2.score

PruneFrame(before, after, max_depth) ==
    /\ \A q \in DOMAIN after : Len(q) <= max_depth
    /\ \A q \in DOMAIN before : Len(q) <= max_depth => q \in DOMAIN after
    /\ \A q \in DOMAIN after :
          q \in DOMAIN before /\ SameNodeStatistics(after[q], before[q])

\* C12: prune(max_depth) leaves no node deeper than max_depth, keeps every
\* node at depth <= max_depth, and leaves the count, sum_ft, sum_ft2 and score
\* of the nodes it keeps as they were.
C12_PruneFrame ==
    [][\A max_depth \in 0..MaxLen :
          (ret'.op = "prune" /\ Prune(max_depth)) =>
              PruneFrame(miner.internal_trie, miner'.internal_trie, max_depth)]_vars

\* prune has just removed the children of a one-token node.
C12_Witness ==
    /\ ret.op = "prune"
    /\ \A q \in DOMAIN miner.internal_trie : Len(q) <= 1
    /\ \E p \in NonRoot(miner.internal_trie) : miner.internal_trie[p].sum_ft > 1

\* --------------------------------------------------------- the flat map
\* C13: after every mutation (ingest, merge, prune) the keys of _longforms are
\* the natural-order token tuples of the non-root nodes of the trie, and each
\* value is the score of its node.
C13_LongformsInSync ==
    /\ DOMAIN miner.longforms = {Reverse(p) : p \in NonRoot(miner.internal_trie)}
    /\ \A p \in NonRoot(miner.internal_trie) :
          Reverse(p) \in DOMAIN miner.longforms
            => miner.longforms[Reverse(p)] = miner.internal_trie[p].score

\* ---------------------------------------------------------- error paths
\* C14: get_longforms on a miner that has ingested and merged nothing returns
\* an empty list and raises no error.
C14_FreshMinerReturnsEmpty ==
    (ret.op = "get_longforms" /\ hist = << >>
       /\ DOMAIN miner.internal_trie = {<< >>})
      => (~ret.raised /\ ret.longforms = << >>)

\* C15: update with a miner for another shortform fails, and leaves the
\* receiver's trie, flat map and stemmer counts as they were.
C15_ForeignShortformRejected ==
    [][(ret'.op = "update" /\ ret'.shortform # miner.shortform) =>
         /\ ret'.raised
         /\ miner'.internal_trie = miner.internal_trie
         /\ miner'.longforms = miner.longforms
         /\ miner'.stemmer = miner.stemmer]_vars

\* C16 as stated: loading a persisted trie with a node that lacks one of its
\* fields fails with a structured load error that identifies the path of the
\* node, and returns no miner.
C16_StructuredLoadError ==
    ret.op = "load_malformed" =>
        /\ ret.outcome.raised
        /\ ret.outcome.error.type = "StructuredLoadError"
        /\ ret.outcome.error.arg = ret.path
        /\ ~ret.outcome.returned

\* C16 amended: it fails with a KeyError that names the missing field, and
\* returns no miner.
C16_KeyError ==
    ret.op = "load_malformed" =>
        /\ ret.outcome.raised
        /\ ret.outcome.error.type = "KeyError"
        /\ ret.outcome.error.arg = ret.field
        /\ ~ret.outcome.returned

\* The damaged node is a two-token node that is not the first entry loaded.
C16_Witness ==
    /\ ret.op = "load_malformed"
    /\ ret.outcome.raised
    /\ Len(ret.path) = 2
    /\ Len(miner.internal_trie[<< >>].children) = 2
    /\ ret.path[1] = miner.internal_trie[<< >>].children[2]
    /\ ret.field = "sum_ft2"

\* C20: when compute_alignment_scores has just run (with whatever parameters)
\* and the trie has not been changed since, get_longforms(use_abs = TRUE)
\* works with the alignment scores it finds: it does not run the alignment
\* pass again, and no node's alignment score changes.
C20_AlignmentScoresReused ==
    [][(/\ ret.op = "compute_alignment_scores"
        /\ ret'.op = "get_longforms"
        /\ ret'.use_abs)
       => /\ ~ret'.aligned
          /\ \A p \in DOMAIN miner.internal_trie :
                 miner'.internal_trie[p].alignment_score
                     = miner.internal_trie[p].alignment_score]_vars

\* ---------------------------------------------------------------- merging
\* How often word was mapped to stem, by the counts of a stemmer.
Count(counts, st, w) ==
    IF st \in DOMAIN counts /\ w \in DOMAIN counts[st].counts
    THEN counts[st].counts[w] ELSE 0

\* The windows of the miner merged in by the step.
MergedIn == SubSeq(hist', Len(hist) + 1, Len(hist'))

CountsAdded(before, other, after) ==
    \A st \in Stems, w \in Words :
        Count(after, st, w) = Count(before, st, w) + Count(other, st, w)

\* C17: after self.update(other), the receiver's stemmer count of every stem
\* and surface form is its previous count plus other's count.
C17_StemmerCountsAdd ==
    [][ret'.op = "update" =>
         CountsAdded(miner.stemmer,
                     TrainedAs(ret'.shortform, MergedIn).stemmer,
                     miner'.stemmer)]_vars

\* count, sum_ft, sum_ft2 and score of every non-root node.
Statistics(m) ==
    [p \in NonRoot(m.internal_trie) |->
       << m.internal_trie[p].count, m.internal_trie[p].sum_ft,
          m.internal_trie[p].sum_ft2, m.internal_trie[p].score >>]

Commutes(A, B) == Statistics(compose(<< A, B >>)) = Statistics(compose(<< B, A >>))

Associates(A, B, C) ==
    Statistics(compose(<< compose(<< A, B >>), C >>))
      = Statistics(compose(<< A, compose(<< B, C >>) >>))

\* C18: for miners A, B, C of one shortform, compose(A, B) and compose(B, A)
\* have the same nodes with the same count, sum_ft, sum_ft2 and score, and so
\* have compose(compose(A, B), C) and compose(A, compose(B, C)).  A is the
\* miner of the state (also taken as the middle operand), B and C range over
\* the trained miners that fit the bound on merged windows.
C18_ComposeCommutesAssociates ==
    \A B \in Others :
        Len(hist) + Len(B) <= MaxMerged =>
            /\ Commutes(miner, Trained(B))
            /\ \A C \in Others :
                  Len(hist) + Len(B) + Len(C) <= MaxMerged =>
                      /\ Associates(miner, Trained(B), Trained(C))
                      /\ Associates(Trained(B), miner, Trained(C))

\* Two miners whose tries overlap and whose two merge orders give tries that
\* differ (in the order of children) while the statistics agree.
C18_Witness ==
    /\ Len(hist) = 2
    /\ \E B \in Others :
          /\ Len(B) = 1
          /\ compose(<< miner, Trained(B) >>).internal_trie
               # compose(<< Trained(B), miner >>).internal_trie
          /\ \E p \in NonRoot(miner.internal_trie) :
                p \in DOMAIN Trained(B).internal_trie
          /\ \E p \in NonRoot(Trained(B).internal_trie) :
                p \notin DOMAIN miner.internal_trie

\* C19: update and compose leave no object of an input miner in the result:
\* no trie node of the result is a node of an input, and a later ingestion
\* into the result changes no object that an input miner holds.
C19_InputsNotShared ==
    [][/\ \A p \in DOMAIN miner'.internal_trie : ~miner'.internal_trie[p].shared
       /\ ret'.op = "process_texts" =>
             \A st \in DOMAIN miner.stemmer :
                 miner.stemmer[st].shared =>
                     miner'.stemmer[st].counts = miner.stemmer[st].counts]_vars

\* ------------------------------------------------------------- ingestion
\* The reversed stemmed token sequence of a window.
ReversedStems(tokens) == Reverse([i \in 1..Len(tokens) |-> Stem(tokens[i])])

IngestedPrefixes == UNION {UpTo(ReversedStems(hist[i])) : i \in 1..Len(hist)}

StartingWith(longform) ==
    {i \in 1..Len(hist) : IsPrefix(longform, ReversedStems(hist[i]))}

\* C21: after any sequence of ingestions into an empty miner, the non-root
\* nodes of the trie are exactly the non-empty prefixes of the reversed stemmed
\* windows (one node per prefix, reached by the prefix's tokens), and each
\* node's count is the number of ingested windows whose reversed stemmed
\* sequence starts with the node's longform.
C21_TrieIsPrefixCounts ==
    /\ DOMAIN miner.internal_trie = IngestedPrefixes \cup {<< >>}
    /\ \A p \in IngestedPrefixes :
          /\ miner.internal_trie[p].longform = p
          /\ miner.internal_trie[p].count = Cardinality(StartingWith(p))

\* Three windows ingested, one of them with a word that differs from its stem,
\* and a two-token node counted twice beside a one-token node counted thrice.
C21_Witness ==
    /\ ret.op = "process_texts"
    /\ Len(hist) = MaxHist
    /\ \E i \in 1..Len(hist) : "bs" \in Range(hist[i])
    /\ \E p \in DOMAIN miner.internal_trie :
          /\ Len(p) = 2
          /\ p[1] # p[2]
          /\ miner.internal_trie[p].count = 2
          /\ miner.internal_trie[<< p[1] >>].count = 3

\* ---------------------------------------------------------- alignment pass
Positions(log, p) == {i \in 1..Len(log) : log[i] = p}

\* C22: a run of compute_alignment_scores assigns alignment state to every
\* non-root node exactly once, after the node's parent got its state in the
\* same run (the root is never assigned), on tries made by ingest, merge,
\* prune and load; afterwards every node carries the state of this run.
C22_AssignedOnceParentFirst ==
    ret.op = "compute_alignment_scores" =>
        /\ Range(ret.assigned) = DOMAIN miner.internal_trie \ {<< >>}
        /\ \A i \in 1..Len(ret.assigned) :
              /\ Cardinality(Positions(ret.assigned, ret.assigned[i])) = 1
              /\ Len(ret.assigned[i]) > 1 =>
                    \E j \in 1..(i - 1) : ret.assigned[j] = Butlast(ret.assigned[i])
              /\ miner.internal_trie[ret.assigned[i]].encoded_tokens = ret.assigned[i]
              /\ miner.internal_trie[ret.assigned[i]].alignment_score
                    = Capped(SumPrize(ret.assigned[i], ret.params))

\* The pass runs with other parameters on a trie that was merged into and
\* pruned, has two-token nodes, and carries the state of an earlier run.
C22_Witness ==
    /\ ret.op = "compute_alignment_scores"
    /\ ret.params # DefaultParams
    /\ pruned
    /\ Len(hist) = MaxMerged
    /\ \E i \in 1..Len(ret.assigned) : Len(ret.assigned[i]) = 2
    /\ Len(miner.internal_trie[<< >>].children) = 2

\* -------------------------------------------------------------- ownership
\* C23: after any sequence of ingest, merge, prune and load operations, every
\* node held in a children dict has that dict's node as its parent, and the
\* root is the only node of the trie whose parent is None.
C23_ParentIsOwner ==
    \A p \in DOMAIN miner.internal_trie :
        miner.internal_trie[p].parent = (IF p = << >> THEN "None" ELSE "owner")

\* --------------------------------------------------------------- antichain
\* C24: the candidates get_longforms returns form an antichain of the trie:
\* they are distinct nodes, none is a proper ancestor of another, and so every
\* root-to-leaf path carries at most one of them.
C24_ReturnedAntichain ==
    Extracting =>
        /\ Len(ret.longforms) = Cardinality(ReturnedNodes)
        /\ \A p \in ReturnedNodes, q \in ReturnedNodes : IsPrefix(p, q) => p = q
        /\ \A leaf \in Leaves(miner.internal_trie) :
              Cardinality({p \in ReturnedNodes : IsPrefix(p, leaf)}) <= 1

\* Two candidates are returned, one a node with children and one a two-token
\* leaf.
C24_Witness ==
    /\ Extracting
    /\ \E p \in ReturnedNodes, q \in ReturnedNodes :
          /\ miner.internal_trie[p].children # << >>
          /\ Len(q) = 2
          /\ miner.internal_trie[q].children = << >>

\* ------------------------------------------------------ statistics bounds
\* C25: after any sequence of ingest, merge and prune operations, every
\* non-root node has sum_ft <= count and sum_ft2 <= sum_ft * sum_ft, and so a
\* score of at least 0.
C25_StatisticsBounded ==
    \A p \in NonRoot(miner.internal_trie) :
        /\ miner.internal_trie[p].sum_ft <= miner.internal_trie[p].count
        /\ miner.internal_trie[p].sum_ft2
              <= miner.internal_trie[p].sum_ft * miner.internal_trie[p].sum_ft
        /\ RLe(R(0), miner.internal_trie[p].score)

\* A merge into a pruned trie has left a node whose extensions account for all
\* of its observations and are spread over two children.
C25_Witness ==
    /\ ret.op = "update"
    /\ pruned
    /\ \E p \in NonRoot(miner.internal_trie) :
          /\ miner.internal_trie[p].sum_ft = miner.internal_trie[p].count
          /\ miner.internal_trie[p].sum_ft2 > 0
          /\ miner.internal_trie[p].sum_ft2
                < miner.internal_trie[p].sum_ft * miner.internal_trie[p].sum_ft

\* ------------------------------------------------------- repeated passes
\* The trie after one _propagate_scores on a freshly loaded copy of m.
FreshPass(m) ==
    _propagate_scores(load_adeft_miner_from_dict(to_dict(m))).internal_trie

SameBestScores(T, fresh) ==
    /\ DOMAIN T = DOMAIN fresh
    /\ \A p \in DOMAIN T :
          /\ T[p].best_ancestor_score = fresh[p].best_ancestor_score
          /\ T[p].best_descendent_score = fresh[p].best_descendent_score

\* An earlier pass has written to the trie.
EarlierPass ==
    \E p \in DOMAIN miner.internal_trie :
        miner.internal_trie[p].best_ancestor_score # R(-1)

\* C26: when scores were propagated, more windows were ingested and scores
\* are propagated again, every node's best_ancestor_score and
\* best_descendent_score are those of one pass over a freshly loaded copy of
\* the same trie: nothing an earlier pass wrote survives.
C26_NothingLeftOver ==
    [][(/\ EarlierPass
        /\ ret'.op = "get_longforms"
        /\ ret'.propagated)
       => SameBestScores(miner'.internal_trie, FreshPass(miner'))]_vars

====
